---- MODULE Spec2Model ----
(***************************************************************************)
(* Model of src/clients/rust/src/wasm.rs: the WasmClient session (cluster  *)
(* id, address string, native client handle), its connect() and batch      *)
(* operations, the value-bag marshalers and the byte-level helpers.        *)
(*                                                                         *)
(* A u128 is its 16 little-endian bytes, so that decimal parsing overflows *)
(* exactly where the 128-bit integer does.  A string is a tuple of         *)
(* one-character strings.                                                  *)
(***************************************************************************)
EXTENDS Integers, Sequences, FiniteSets, TLC

\* cluster_id, addresses, native_client: the fields of WasmClient.
\* failures: how often connect() has failed in the native init.
\* call: the last method call, with its input, its result and what it logged.
\* fn_in, fn_out: argument and result of a helper applied on its own.
\* pending, delivered, next_id: the async calls issued and not yet run, the
\* values returned to each caller, and the number of the next call.
VARIABLES cluster_id, addresses, native_client, failures, call,
          fn_in, fn_out, pending, delivered, next_id

vars == <<cluster_id, addresses, native_client, failures, call,
          fn_in, fn_out, pending, delivered, next_id>>

\* ------------------------------------------------------------------ bounds

\* Longest batch handed to one operation.
MaxBatch == 2
\* Failed connect() attempts counted per session (caps the ghost counter).
MaxConnects == 2
\* Calls issued on one session in the concurrent specification.
MaxCalls == 3
\* (index, outcome) pairs in a generated result payload.
MaxResults == 3

\* ------------------------------------------------------- Result<T, E> values

Ok(v) == [ok |-> TRUE, val |-> v, err |-> <<>>]
Err(e) == [ok |-> FALSE, val |-> <<>>, err |-> e]

\* ------------------------------------------------------------ u128 and bytes

U128Bytes == 16

Zero128 == [i \in 1..U128Bytes |-> 0]

Digits == <<"0", "1", "2", "3", "4", "5", "6", "7", "8", "9">>

DigitChars == {Digits[i] : i \in 1..Len(Digits)}

DigitValues == [c \in DigitChars |-> (CHOOSE i \in 1..Len(Digits) : Digits[i] = c) - 1]

IsDigit(c) == c \in DigitChars

DigitVal(c) == DigitValues[c]

\* acc * 10 + d on the 16 bytes, least significant first; the carry out of
\* the last byte is the overflow checked_mul / checked_add report.
RECURSIVE MulAdd10(_, _, _, _)
MulAdd10(b, i, carry, out) ==
    IF i > U128Bytes
    THEN [bytes |-> out, overflow |-> carry # 0]
    ELSE LET t == b[i] * 10 + carry
         IN  MulAdd10(b, i + 1, t \div 256, Append(out, t % 256))

RECURSIVE ParseDigits(_, _, _)
ParseDigits(s, i, acc) ==
    IF i > Len(s) THEN Ok(acc)
    ELSE IF ~IsDigit(s[i]) THEN Err(<<"invalid digit found in string">>)
    ELSE LET r == MulAdd10(acc, 1, DigitVal(s[i]), <<>>)
         IN  IF r.overflow
             THEN Err(<<"number too large to fit in target type">>)
             ELSE ParseDigits(s, i + 1, r.bytes)

\* str::parse::<u128>(): empty string, a lone sign, a '-' (unsigned), any
\* non-digit and any value above 2^128 - 1 are errors; one leading '+' and
\* leading zeros are accepted.
parse_u128(s) ==
    IF Len(s) = 0 THEN Err(<<"cannot parse integer from empty string">>)
    ELSE IF Len(s) = 1 /\ s[1] \in {"+", "-"}
         THEN Err(<<"invalid digit found in string">>)
    ELSE IF s[1] = "+" THEN ParseDigits(Tail(s), 1, Zero128)
    ELSE ParseDigits(s, 1, Zero128)

\* The little-endian bytes of an unsigned integer of `width` bytes.
RECURSIVE LeBytes(_, _)
LeBytes(n, width) ==
    IF width = 0 THEN <<>>
    ELSE <<n % 256>> \o LeBytes(n \div 256, width - 1)

Zeros(n) == [i \in 1..n |-> 0]

\* u128::to_string(): canonical decimal, no sign, no leading zeros.
RECURSIVE DivMod10(_, _, _, _)
DivMod10(b, i, rem, out) ==
    IF i = 0
    THEN [quot |-> out, rem |-> rem]
    ELSE LET t == rem * 256 + b[i]
         IN  DivMod10(b, i - 1, t % 10, [out EXCEPT ![i] = t \div 10])

RECURSIVE U128Digits(_)
U128Digits(b) ==
    IF b = Zero128 THEN <<>>
    ELSE LET r == DivMod10(b, U128Bytes, 0, Zero128)
         IN  Append(U128Digits(r.quot), Digits[r.rem + 1])

u128_to_string(b) == IF b = Zero128 THEN <<"0">> ELSE U128Digits(b)

\* ------------------------------------------------------------- JS values

Undefined == [t |-> "undefined", s |-> <<>>, halves |-> 0]
JsStr(s) == [t |-> "string", s |-> s, halves |-> 0]
\* A JS number, held in halves so that a fractional value exists (7 is 3.5).
JsNum(h) == [t |-> "number", s |-> <<>>, halves |-> h]

\* JsValue::as_string / as_f64: Some only for a value of that JS type.
as_string(v) == IF v.t = "string" THEN Ok(v.s) ELSE Err(<<"None">>)
as_f64(v) == IF v.t = "number" THEN Ok(v.halves) ELSE Err(<<"None">>)

\* Reflect::get: a missing property reads as undefined; a target that is
\* not an object throws, which the callers' `if let Ok` skips.
Reflect_get(obj, field) ==
    IF obj.obj THEN Ok(obj[field]) ELSE Err(<<"TypeError">>)

\* `f as u32`, `f as u16`: truncate toward zero and saturate.  The u32
\* upper limit lies above every number the model can hold.
U16Max == 65535
f64_as_u32(h) == IF h <= 0 THEN 0 ELSE h \div 2
f64_as_u16(h) ==
    IF h <= 0 THEN 0 ELSE IF h \div 2 > U16Max THEN U16Max ELSE h \div 2

\* ----------------------------------------------------- Account, Transfer

\* Account::default() / Transfer::default(): every field zero.  Only the
\* fields the marshalers assign are held; the others stay zero.
AccountDefault == [id |-> Zero128, ledger |-> 0, code |-> 0]

TransferDefault ==
    [id |-> Zero128, debit_account_id |-> Zero128,
     credit_account_id |-> Zero128, amount |-> Zero128,
     ledger |-> 0, code |-> 0]

\* One string-typed 128-bit field: absent or non-string leaves the record
\* as it is, a string that does not parse is the error `msg`.
SetU128(rec, obj, field, msg) ==
    LET g == Reflect_get(obj, field)
        s == IF g.ok THEN as_string(g.val) ELSE Err(<<"None">>)
        p == IF s.ok THEN parse_u128(s.val) ELSE Err(<<>>)
    IN  IF ~s.ok THEN Ok(rec)
        ELSE IF p.ok THEN Ok([rec EXCEPT ![field] = p.val])
        ELSE Err(<<msg>> \o p.err)

SetLedgerCode(rec, obj) ==
    LET gl == Reflect_get(obj, "ledger")
        l  == IF gl.ok THEN as_f64(gl.val) ELSE Err(<<"None">>)
        r1 == IF l.ok THEN [rec EXCEPT !.ledger = f64_as_u32(l.val)] ELSE rec
        gc == Reflect_get(obj, "code")
        c  == IF gc.ok THEN as_f64(gc.val) ELSE Err(<<"None">>)
    IN  IF c.ok THEN [r1 EXCEPT !.code = f64_as_u16(c.val)] ELSE r1

\* The next field of a record under construction: a failure so far is
\* returned as it is (the `?` after each parse).
AndThenU128(r, obj, field, msg) ==
    IF r.ok THEN SetU128(r.val, obj, field, msg) ELSE r

AndThenLedgerCode(r, obj) ==
    IF r.ok THEN Ok(SetLedgerCode(r.val, obj)) ELSE r

js_object_to_account(obj) ==
    AndThenLedgerCode(SetU128(AccountDefault, obj, "id", "Invalid ID"), obj)

js_object_to_transfer(obj) ==
    AndThenLedgerCode(
        AndThenU128(
            AndThenU128(
                AndThenU128(
                    SetU128(TransferDefault, obj, "id", "Invalid ID"),
                    obj, "debit_account_id", "Invalid debit account ID"),
                obj, "credit_account_id", "Invalid credit account ID"),
            obj, "amount", "Invalid amount"),
        obj)

\* One element of lookup_accounts' id array.
js_value_to_id(v) ==
    LET s == as_string(v)
        p == IF s.ok THEN parse_u128(s.val) ELSE Err(<<>>)
    IN  IF ~s.ok THEN Err(<<"Account ID must be a string">>)
        ELSE IF p.ok THEN p
        ELSE Err(<<"Invalid account ID">> \o p.err)

\* iter().map(f).collect::<Result<Vec<_>, _>>(): the first error, else all.
RECURSIVE CollectAccounts(_, _, _)
CollectAccounts(xs, i, out) ==
    IF i > Len(xs) THEN Ok(out)
    ELSE LET r == js_object_to_account(xs[i])
         IN  IF r.ok THEN CollectAccounts(xs, i + 1, Append(out, r.val)) ELSE r

RECURSIVE CollectTransfers(_, _, _)
CollectTransfers(xs, i, out) ==
    IF i > Len(xs) THEN Ok(out)
    ELSE LET r == js_object_to_transfer(xs[i])
         IN  IF r.ok THEN CollectTransfers(xs, i + 1, Append(out, r.val)) ELSE r

RECURSIVE CollectIds(_, _, _)
CollectIds(xs, i, out) ==
    IF i > Len(xs) THEN Ok(out)
    ELSE LET r == js_value_to_id(xs[i])
         IN  IF r.ok THEN CollectIds(xs, i + 1, Append(out, r.val)) ELSE r

\* ------------------------------------------------------- byte conversion

\* The repr(C) layouts of the crate's Account and Transfer, 128 bytes each:
\* the assigned fields in place, every other field zero.

AccountBytes(a) ==
    a.id \o Zeros(4 * U128Bytes) \o Zeros(U128Bytes) \o Zeros(8) \o Zeros(4)
         \o Zeros(4) \o LeBytes(a.ledger, 4) \o LeBytes(a.code, 2)
         \o Zeros(2) \o Zeros(8)

TransferBytes(t) ==
    t.id \o t.debit_account_id \o t.credit_account_id \o t.amount
         \o Zeros(U128Bytes) \o Zeros(U128Bytes) \o Zeros(8) \o Zeros(4)
         \o Zeros(4) \o LeBytes(t.ledger, 4) \o LeBytes(t.code, 2)
         \o Zeros(2) \o Zeros(8)

RECURSIVE accounts_to_bytes(_)
accounts_to_bytes(accounts) ==
    IF Len(accounts) = 0 THEN <<>>
    ELSE AccountBytes(Head(accounts)) \o accounts_to_bytes(Tail(accounts))

RECURSIVE transfers_to_bytes(_)
transfers_to_bytes(transfers) ==
    IF Len(transfers) = 0 THEN <<>>
    ELSE TransferBytes(Head(transfers)) \o transfers_to_bytes(Tail(transfers))

RECURSIVE account_ids_to_bytes(_)
account_ids_to_bytes(ids) ==
    IF Len(ids) = 0 THEN <<>>
    ELSE Head(ids) \o account_ids_to_bytes(Tail(ids))

\* The three response parsers: an empty payload is an empty list, and so is
\* every other payload ("Would parse actual ... here").
parse_create_accounts_results(data) ==
    IF Len(data) = 0 THEN Ok(<<>>) ELSE Ok(<<>>)

parse_create_transfers_results(data) ==
    IF Len(data) = 0 THEN Ok(<<>>) ELSE Ok(<<>>)

parse_lookup_accounts_results(data) ==
    IF Len(data) = 0 THEN Ok(<<>>) ELSE Ok(<<>>)

\* results_to_js_array / transfer_results_to_js_array: one {index, result}
\* object per result, in order.
results_to_js_array(results) ==
    Ok([i \in 1..Len(results) |->
          [index |-> results[i].index, result |-> results[i].result]])

transfer_results_to_js_array(results) ==
    Ok([i \in 1..Len(results) |->
          [index |-> results[i].index, result |-> results[i].result]])

\* accounts_to_js_array: the 128-bit fields rendered as decimal strings.
accounts_to_js_array(accounts) ==
    Ok([i \in 1..Len(accounts) |->
          [id |-> u128_to_string(accounts[i].id),
           ledger |-> accounts[i].ledger,
           code |-> accounts[i].code,
           debits_pending |-> <<"0">>, debits_posted |-> <<"0">>,
           credits_pending |-> <<"0">>, credits_posted |-> <<"0">>]])

\* ------------------------------------------------------ native interface

Ev(msg, n) == [msg |-> msg, n |-> n]

NullPtr == 0
None == [some |-> FALSE, ptr |-> NullPtr]
Some(p) == [some |-> TRUE, ptr |-> p]

LogNativeCreateAccounts == "Native call: create_accounts"
LogNativeCreateTransfers == "Native call: create_transfers"
LogNativeLookupAccounts == "Native call: lookup_accounts"
LogNativeInit == "Native call: tb_client_init"
LogUsingNative == "Using native TigerBeetle WASM library"
LogNotInitialized == "Native client not initialized"
NotConnectedMsg == "Client not connected. Call connect() first."

\* The call_native_* functions: with a handle the submit is left out
\* ("Would call actual native tb_client_submit here") and an empty response
\* is returned; without one the call fails.
call_native_create_accounts_inverted(nc, accounts_bytes) ==
    IF ~nc.some
    THEN [result |-> Ok(<<>>),
          trace |-> <<Ev(LogNativeCreateAccounts, Len(accounts_bytes)),
                      Ev(LogUsingNative, 0)>>]
    ELSE [result |-> Err(<<NotConnectedMsg>>),
          trace |-> <<Ev(LogNativeCreateAccounts, Len(accounts_bytes)),
                      Ev(LogNotInitialized, 0)>>]

call_native_create_accounts(nc, accounts_bytes) ==
    IF nc.some
    THEN [result |-> Ok(<<>>),
          trace |-> <<Ev(LogNativeCreateAccounts, Len(accounts_bytes)),
                      Ev(LogUsingNative, 0)>>]
    ELSE [result |-> Err(<<NotConnectedMsg>>),
          trace |-> <<Ev(LogNativeCreateAccounts, Len(accounts_bytes)),
                      Ev(LogNotInitialized, 0)>>]

call_native_create_transfers(nc, transfers_bytes) ==
    IF nc.some
    THEN [result |-> Ok(<<>>),
          trace |-> <<Ev(LogNativeCreateTransfers, Len(transfers_bytes)),
                      Ev(LogUsingNative, 0)>>]
    ELSE [result |-> Err(<<NotConnectedMsg>>),
          trace |-> <<Ev(LogNativeCreateTransfers, Len(transfers_bytes)),
                      Ev(LogNotInitialized, 0)>>]

call_native_lookup_accounts(nc, ids_bytes) ==
    IF nc.some
    THEN [result |-> Ok(<<>>),
          trace |-> <<Ev(LogNativeLookupAccounts, Len(ids_bytes)),
                      Ev(LogUsingNative, 0)>>]
    ELSE [result |-> Err(<<NotConnectedMsg>>),
          trace |-> <<Ev(LogNativeLookupAccounts, Len(ids_bytes)),
                      Ev(LogNotInitialized, 0)>>]

\* The status the simulated tb_client_init returns.
InitStatus == 3

InitErrorMsg(result) ==
    CASE result = 1 -> "Unexpected error"
      [] result = 2 -> "Out of memory"
      [] result = 3 -> "Invalid address"
      [] result = 4 -> "Address limit exceeded"
      [] result = 5 -> "Invalid concurrency max"
      [] result = 6 -> "System resources"
      [] result = 7 -> "Network subsystem"
      [] OTHER -> "Unknown error"

call_native_init(cluster_id_array, addresses_cstring) ==
    LET client_ptr == NullPtr
        result == InitStatus
        log == <<Ev(LogNativeInit, 0), Ev("tb_client_init returned status", result)>>
    IN  IF result = 0
        THEN [result |-> Ok(client_ptr),
              trace |-> Append(log,
                  Ev("Native TigerBeetle client initialized successfully", 0))]
        ELSE [result |-> Err(<<"tb_client_init failed", InitErrorMsg(result)>>),
              trace |-> Append(log, Ev("Native init failed with error", result))]

\* CString::new: an interior NUL byte is the only thing it rejects.
CString_new(s) ==
    IF \E i \in 1..Len(s) : s[i] = "NUL"
    THEN Err(<<"nul byte found in provided data">>)
    ELSE Ok(s)

\* ------------------------------------------------------------ WasmClient

\* WasmClient::new: the cluster id is parsed, the addresses are stored as
\* given, and no handle is held.
new(cluster_id_str, addresses_str) ==
    LET p == parse_u128(cluster_id_str)
    IN  IF p.ok
        THEN Ok([cluster_id |-> p.val, addresses |-> addresses_str,
                 native_client |-> None])
        ELSE Err(<<"Invalid cluster_id">> \o p.err)

\* connect(): what it returns, what it logs, the handle it leaves in the
\* session, and whether the native init was reached and failed.
connect_store_before_check(nc, cid, addrs) ==
    LET c == CString_new(addrs)
        r == call_native_init(cid, c.val)
        log == <<Ev("Connecting to TigerBeetle using native WASM library", 0)>>
    IN  IF ~c.ok
        THEN [result |-> Err(<<"Invalid addresses string">> \o c.err),
              trace |-> log, native_client |-> nc, init_failed |-> FALSE]
        ELSE [result |-> IF r.result.ok THEN Ok(<<>>)
                         ELSE Err(<<"Failed to initialize TigerBeetle client">>
                                  \o r.result.err),
              trace |-> log \o r.trace,
              native_client |-> Some(NullPtr),
              init_failed |-> ~r.result.ok]

connect(nc, cid, addrs) ==
    LET c == CString_new(addrs)
        r == call_native_init(cid, c.val)
        log == <<Ev("Connecting to TigerBeetle using native WASM library", 0)>>
    IN  IF ~c.ok
        THEN [result |-> Err(<<"Invalid addresses string">> \o c.err),
              trace |-> log, native_client |-> nc, init_failed |-> FALSE]
        ELSE IF r.result.ok
        THEN [result |-> Ok(<<>>),
              trace |-> log \o r.trace \o
                  <<Ev("Successfully connected to TigerBeetle server via native WASM", 0)>>,
              native_client |-> Some(r.result.val), init_failed |-> FALSE]
        ELSE [result |-> Err(<<"Failed to initialize TigerBeetle client">>
                             \o r.result.err),
              trace |-> log \o r.trace \o <<Ev("Native init failed", 0)>>,
              native_client |-> nc, init_failed |-> TRUE]

\* The tail of the three operations: the native result parsed and turned
\* into a JS array, or the native error wrapped.
Finish(native, parsed_js, fail_msg) ==
    IF native.result.ok
    THEN [result |-> parsed_js, trace |-> native.trace]
    ELSE [result |-> Err(<<fail_msg>> \o native.result.err),
          trace |-> native.trace \o <<Ev("Native call failed", 0)>>]

create_accounts_call_before_check(nc, accounts) ==
    LET v == CollectAccounts(accounts, 1, <<>>)
        native == call_native_create_accounts(nc,
                      accounts_to_bytes(IF v.ok THEN v.val ELSE <<>>))
    IN  IF ~v.ok THEN [result |-> v, trace |-> native.trace]
        ELSE Finish(native, Ok(<<>>), "Failed to create accounts")

create_accounts(nc, accounts) ==
    LET v == CollectAccounts(accounts, 1, <<>>)
        native == call_native_create_accounts(nc, accounts_to_bytes(v.val))
        parsed == parse_create_accounts_results(native.result.val)
        r == Finish(native,
                    IF parsed.ok THEN results_to_js_array(parsed.val) ELSE parsed,
                    "Failed to create accounts")
    IN  IF ~v.ok THEN [result |-> v, trace |-> <<>>]
        ELSE [r EXCEPT !.trace =
                  <<Ev("Creating accounts via native TigerBeetle WASM", Len(v.val))>>
                  \o @]

create_transfers(nc, transfers) ==
    LET v == CollectTransfers(transfers, 1, <<>>)
        native == call_native_create_transfers(nc, transfers_to_bytes(v.val))
        parsed == parse_create_transfers_results(native.result.val)
        r == Finish(native,
                    IF parsed.ok THEN transfer_results_to_js_array(parsed.val)
                    ELSE parsed,
                    "Failed to create transfers")
    IN  IF ~v.ok THEN [result |-> v, trace |-> <<>>]
        ELSE [r EXCEPT !.trace =
                  <<Ev("Creating transfers via native TigerBeetle WASM", Len(v.val))>>
                  \o @]

lookup_accounts(nc, account_ids) ==
    LET v == CollectIds(account_ids, 1, <<>>)
        native == call_native_lookup_accounts(nc, account_ids_to_bytes(v.val))
        parsed == parse_lookup_accounts_results(native.result.val)
        r == Finish(native,
                    IF parsed.ok THEN accounts_to_js_array(parsed.val) ELSE parsed,
                    "Failed to lookup accounts")
    IN  IF ~v.ok THEN [result |-> v, trace |-> <<>>]
        ELSE [r EXCEPT !.trace =
                  <<Ev("Looking up accounts via native TigerBeetle WASM", Len(v.val))>>
                  \o @]

\* ----------------------------------------------------------------- inputs

U128MaxStr ==
    <<"3","4","0","2","8","2","3","6","6","9","2","0","9","3","8","4","6","3",
      "4","6","3","3","7","4","6","0","7","4","3","1","7","6","8","2","1","1",
      "4","5","5">>

U128OverflowStr ==
    <<"3","4","0","2","8","2","3","6","6","9","2","0","9","3","8","4","6","3",
      "4","6","3","3","7","4","6","0","7","4","3","1","7","6","8","2","1","1",
      "4","5","6">>

\* Sequences over S of length at most n.
RECURSIVE SeqsUpTo(_, _)
SeqsUpTo(S, n) ==
    IF n = 0 THEN {<<>>}
    ELSE LET shorter == SeqsUpTo(S, n - 1)
         IN  shorter \cup {Append(q, x) : q \in {t \in shorter : Len(t) = n - 1}, x \in S}

\* Cluster id strings given to the constructor: the largest u128, one past
\* it, and a non-number.
ClusterIdStrings == {U128MaxStr, U128OverflowStr, <<"x">>}

\* Address strings: empty, host only, host:port, missing port, missing
\* host, a two-address list, a list with an empty address, an interior NUL.
AddressStrings ==
    { <<>>, <<"h">>, <<"h", ":", "1">>, <<"h", ":">>, <<":", "1">>,
      <<"h", ":", "1", ",", "h", ":", "1">>, <<"h", ":", "1", ",">>,
      <<"h", "NUL", ":", "1">> }

AccountBag(id, ledger, code) ==
    [obj |-> TRUE, id |-> id, ledger |-> ledger, code |-> code]

\* {id: "1", ledger: 1, code: 70000.5}, {ledger: 1} and {id: "x"}.
AccountBags ==
    { AccountBag(JsStr(<<"1">>), JsNum(2), JsNum(140001)),
      AccountBag(Undefined, JsNum(2), Undefined),
      AccountBag(JsStr(<<"x">>), Undefined, Undefined) }

TransferBag(id, debit, credit, amount) ==
    [obj |-> TRUE, id |-> id, debit_account_id |-> debit,
     credit_account_id |-> credit, amount |-> amount,
     ledger |-> JsNum(2), code |-> JsNum(20)]

\* A complete transfer, one without id, one with amount "-1".
TransferBags ==
    { TransferBag(JsStr(<<"7">>), JsStr(<<"1">>), JsStr(<<"2">>), JsStr(<<"+", "5">>)),
      TransferBag(Undefined, JsStr(<<"1">>), JsStr(<<"2">>), JsStr(<<"5">>)),
      TransferBag(JsStr(<<"7">>), JsStr(<<"1">>), JsStr(<<"2">>), JsStr(<<"-", "1">>)) }

\* "07", "x" and the number 5.
LookupIds == { JsStr(<<"0", "7">>), JsStr(<<"x">>), JsNum(10) }

AccountBatches == SeqsUpTo(AccountBags, MaxBatch)
TransferBatches == SeqsUpTo(TransferBags, MaxBatch)
LookupBatches == SeqsUpTo(LookupIds, MaxBatch)

\* ------------------------------------------------------------ the session

CallRecord(op, input, r) ==
    [op |-> op, input |-> input, result |-> r.result, trace |-> r.trace]

NoCall == [op |-> "new", input |-> <<>>, result |-> Ok(<<>>), trace |-> <<>>]

Idle ==
    /\ fn_in = <<>> /\ fn_out = <<>>
    /\ pending = {} /\ delivered = <<>> /\ next_id = 1

\* A session as the constructor leaves it.
Init ==
    /\ \E c \in ClusterIdStrings, a \in AddressStrings :
          /\ new(c, a).ok
          /\ cluster_id = new(c, a).val.cluster_id
          /\ addresses = new(c, a).val.addresses
          /\ native_client = new(c, a).val.native_client
    /\ failures = 0
    /\ call = NoCall
    /\ Idle

Connect ==
    /\ failures < MaxConnects
    /\ LET r == connect(native_client, cluster_id, addresses)
       IN  /\ native_client' = r.native_client
           /\ failures' = IF r.init_failed THEN failures + 1 ELSE failures
           /\ call' = CallRecord("connect", <<>>, r)
    /\ UNCHANGED <<cluster_id, addresses, fn_in, fn_out, pending, delivered, next_id>>

CreateAccounts ==
    /\ \E accounts \in AccountBatches :
          call' = CallRecord("create_accounts", accounts,
                             create_accounts(native_client, accounts))
    /\ UNCHANGED <<cluster_id, addresses, native_client, failures,
                   fn_in, fn_out, pending, delivered, next_id>>

CreateTransfers ==
    /\ \E transfers \in TransferBatches :
          call' = CallRecord("create_transfers", transfers,
                             create_transfers(native_client, transfers))
    /\ UNCHANGED <<cluster_id, addresses, native_client, failures,
                   fn_in, fn_out, pending, delivered, next_id>>

LookupAccounts ==
    /\ \E account_ids \in LookupBatches :
          call' = CallRecord("lookup_accounts", account_ids,
                             lookup_accounts(native_client, account_ids))
    /\ UNCHANGED <<cluster_id, addresses, native_client, failures,
                   fn_in, fn_out, pending, delivered, next_id>>

Next == Connect \/ CreateAccounts \/ CreateTransfers \/ LookupAccounts

Spec == Init /\ [][Next]_vars

\* The same session and operations, started with or without a handle: the
\* handle is what connect() stores when the native init reports status 0.
InitStub ==
    /\ \E c \in ClusterIdStrings, a \in AddressStrings :
          /\ new(c, a).ok
          /\ cluster_id = new(c, a).val.cluster_id
          /\ addresses = new(c, a).val.addresses
    /\ native_client \in {None, Some(NullPtr)}
    /\ failures = 0
    /\ call = NoCall
    /\ Idle

SpecStub == InitStub /\ [][Next]_vars

\* ---------------------------------------------- the helpers on their own

\* The wire form of a create-operation result list: per entry the index and
\* the outcome code, a little-endian u32 each.
RECURSIVE EncodeResults(_)
EncodeResults(pairs) ==
    IF Len(pairs) = 0 THEN <<>>
    ELSE LeBytes(Head(pairs).index, 4) \o LeBytes(Head(pairs).result, 4)
         \o EncodeResults(Tail(pairs))

\* Outcome codes of a failed item: linked_event_failed and exists.
OutcomeCodes == {1, 21}

ResultPairs == [index : 0..(MaxBatch - 1), result : OutcomeCodes]

FnInput(kind, pairs, accounts) ==
    [kind |-> kind, pairs |-> pairs, accounts |-> accounts]

NoOutput == [fn |-> "none", bytes |-> 0, out |-> <<>>]

\* Account records as the marshaler produces them, the largest id included.
AccountRecords ==
    {js_object_to_account(b).val : b \in {x \in AccountBags : js_object_to_account(x).ok}}
    \cup {[id |-> parse_u128(U128MaxStr).val, ledger |-> 1, code |-> 10]}

FnInputs ==
    {FnInput("results", p, <<>>) : p \in SeqsUpTo(ResultPairs, MaxResults)}
    \cup {FnInput("accounts", <<>>, a) : a \in SeqsUpTo(AccountRecords, MaxBatch)}

InitFn ==
    /\ cluster_id = Zero128
    /\ addresses = <<>>
    /\ native_client = None
    /\ failures = 0
    /\ call = NoCall
    /\ fn_in \in FnInputs
    /\ fn_out = NoOutput
    /\ pending = {} /\ delivered = <<>> /\ next_id = 1

ParseCreateAccountsResults ==
    /\ fn_in.kind = "results"
    /\ LET data == EncodeResults(fn_in.pairs)
       IN  fn_out' = [fn |-> "parse_create_accounts_results", bytes |-> Len(data),
                      out |-> parse_create_accounts_results(data).val]
    /\ UNCHANGED <<cluster_id, addresses, native_client, failures, call,
                   fn_in, pending, delivered, next_id>>

ParseCreateTransfersResults ==
    /\ fn_in.kind = "results"
    /\ LET data == EncodeResults(fn_in.pairs)
       IN  fn_out' = [fn |-> "parse_create_transfers_results", bytes |-> Len(data),
                      out |-> parse_create_transfers_results(data).val]
    /\ UNCHANGED <<cluster_id, addresses, native_client, failures, call,
                   fn_in, pending, delivered, next_id>>

\* accounts_to_bytes, then parse_lookup_accounts_results on its output.
EncodeDecodeAccounts ==
    /\ fn_in.kind = "accounts"
    /\ LET data == accounts_to_bytes(fn_in.accounts)
       IN  fn_out' = [fn |-> "parse_lookup_accounts_results", bytes |-> Len(data),
                      out |-> parse_lookup_accounts_results(data).val]
    /\ UNCHANGED <<cluster_id, addresses, native_client, failures, call,
                   fn_in, pending, delivered, next_id>>

NextFn ==
    ParseCreateAccountsResults \/ ParseCreateTransfersResults \/ EncodeDecodeAccounts

SpecFn == InitFn /\ [][NextFn]_vars

\* ------------------------------------------------------ concurrent calls

\* Each async method call is a future of its own; a call is issued, later
\* its body runs to the end and its caller is resolved with what the body
\* returned.  Any pending call may be the next to run.
ConcAddressStrings == {<<"h", ":", "1">>, <<"h", "NUL", ":", "1">>}

ConcInputs(op) ==
    CASE op = "connect" -> {<<>>}
      [] op = "create_accounts" -> {b \in AccountBatches : Len(b) = 1}
      [] op = "create_transfers" -> {<<>>}
      [] op = "lookup_accounts" -> {b \in LookupBatches : Len(b) = 1}

InitConc ==
    /\ cluster_id = Zero128
    /\ addresses \in ConcAddressStrings
    /\ native_client = None
    /\ failures = 0
    /\ call = NoCall
    /\ fn_in = <<>> /\ fn_out = <<>>
    /\ pending = {}
    /\ delivered = [i \in 1..MaxCalls |-> <<>>]
    /\ next_id = 1

Issue(op) ==
    /\ next_id <= MaxCalls
    /\ \E input \in ConcInputs(op) :
          pending' = pending \cup {[id |-> next_id, op |-> op, input |-> input]}
    /\ next_id' = next_id + 1
    /\ UNCHANGED <<cluster_id, addresses, native_client, failures, call,
                   fn_in, fn_out, delivered>>

IssueConnect == Issue("connect")
IssueCreateAccounts == Issue("create_accounts")
IssueCreateTransfers == Issue("create_transfers")
IssueLookupAccounts == Issue("lookup_accounts")

\* The body of call c, run against the session as it is now.
Execute(c) ==
    CASE c.op = "connect" -> connect(native_client, cluster_id, addresses)
      [] c.op = "create_accounts" ->
            create_accounts(native_client, c.input)
            @@ [native_client |-> native_client, init_failed |-> FALSE]
      [] c.op = "create_transfers" ->
            create_transfers(native_client, c.input)
            @@ [native_client |-> native_client, init_failed |-> FALSE]
      [] c.op = "lookup_accounts" ->
            lookup_accounts(native_client, c.input)
            @@ [native_client |-> native_client, init_failed |-> FALSE]

\* The value a call's body returns resolves that call's own caller.
ReturnToLowestPending(d, c, result) ==
    LET lowest == CHOOSE p \in pending : \A q \in pending : p.id <= q.id
    IN  [d EXCEPT ![lowest.id] = Append(@, [req |-> c, result |-> result])]

Return(d, c, result) ==
    [d EXCEPT ![c.id] = Append(@, [req |-> c, result |-> result])]

\* Call c ends with what its body r left: its caller is resolved and the
\* session holds what the body stored.
Complete(c, r) ==
    /\ delivered' = Return(delivered, c, r.result)
    /\ pending' = pending \ {c}
    /\ native_client' = r.native_client
    /\ failures' = IF r.init_failed THEN failures + 1 ELSE failures
    /\ call' = CallRecord(c.op, c.input, r)
    /\ UNCHANGED <<cluster_id, addresses, fn_in, fn_out, next_id>>

Run == \E c \in pending : Complete(c, Execute(c))

NextConc ==
    \/ IssueConnect \/ IssueCreateAccounts \/ IssueCreateTransfers
    \/ IssueLookupAccounts \/ Run

SpecConc == InitConc /\ [][NextConc]_vars

\* ------------------------------------------------- vocabulary of the claims

Operations == {"create_accounts", "create_transfers", "lookup_accounts"}

Logged(trace, msg) == \E i \in 1..Len(trace) : trace[i].msg = msg

NativeInvoked(trace) ==
    \/ Logged(trace, LogNativeCreateAccounts)
    \/ Logged(trace, LogNativeCreateTransfers)
    \/ Logged(trace, LogNativeLookupAccounts)

IsNotConnected(r) ==
    /\ ~r.ok
    /\ Len(r.err) = 2
    /\ r.err[1] \in {"Failed to create accounts", "Failed to create transfers",
                     "Failed to lookup accounts"}
    /\ r.err[2] = NotConnectedMsg

ValidationMessages ==
    {"Invalid ID", "Invalid debit account ID", "Invalid credit account ID",
     "Invalid amount", "Invalid account ID", "Account ID must be a string"}

IsValidationError(r) == ~r.ok /\ Len(r.err) >= 1 /\ r.err[1] \in ValidationMessages

\* The batch of an operation passes marshaling: every record converts.
Marshals(c) ==
    CASE c.op = "create_accounts" -> CollectAccounts(c.input, 1, <<>>).ok
      [] c.op = "create_transfers" -> CollectTransfers(c.input, 1, <<>>).ok
      [] c.op = "lookup_accounts" -> CollectIds(c.input, 1, <<>>).ok
      [] OTHER -> TRUE

\* The comma-separated parts of an address string.
RECURSIVE SplitComma(_, _, _, _)
SplitComma(s, i, cur, out) ==
    IF i > Len(s) THEN Append(out, cur)
    ELSE IF s[i] = "," THEN SplitComma(s, i + 1, <<>>, Append(out, cur))
    ELSE SplitComma(s, i + 1, Append(cur, s[i]), out)

IsHostPort(a) ==
    \E k \in 2..(Len(a) - 1) :
        /\ a[k] = ":"
        /\ \A j \in 1..(k - 1) : a[j] \in DigitChars \cup {"h"}
        /\ \A j \in (k + 1)..Len(a) : a[j] \in DigitChars

WellFormedAddressList(s) ==
    /\ Len(s) > 0
    /\ LET parts == SplitComma(s, 1, <<>>, <<>>)
       IN  \A i \in 1..Len(parts) : IsHostPort(parts[i])

\* ------------------------------------------------------------------ claims

\* C1 (as stated): an operation issued while the session holds no handle
\* fails with the not-connected error for every input batch, and nothing
\* is submitted.
C1_NotConnectedForEveryBatch ==
    (call.op \in Operations /\ ~native_client.some)
        => (IsNotConnected(call.result) /\ ~Logged(call.trace, LogUsingNative))

\* C1 (amended): an operation issued while the session holds no handle
\* fails with the not-connected error when its batch passes marshaling and
\* with the record's validation error when it does not; in both cases
\* nothing is submitted.
C1_NotConnectedUnlessInvalid ==
    (call.op \in Operations /\ ~native_client.some)
        => /\ ~Logged(call.trace, LogUsingNative)
           /\ Marshals(call) => IsNotConnected(call.result)
           /\ ~Marshals(call) => (IsValidationError(call.result) /\ call.trace = <<>>)

C1_Witness ==
    /\ failures >= 1
    /\ call.op = "create_transfers"
    /\ Len(call.input) >= 2
    /\ IsNotConnected(call.result)

\* C2: connect() on a session whose addresses are well formed leaves the
\* session Connected (the handle is stored), so that operations are accepted
\* afterwards.
C2_ConnectReachesConnected ==
    (call.op = "connect" /\ WellFormedAddressList(addresses)) => native_client.some

\* C3: once a connect() attempt has failed in the native init, no later
\* step changes the session: it holds no handle, and its cluster id and
\* addresses stay as they were.
C3_FailedIsTerminal ==
    [][failures > 0 =>
          /\ ~native_client'.some
          /\ native_client' = native_client
          /\ cluster_id' = cluster_id
          /\ addresses' = addresses
          /\ failures' >= failures]_vars

C3_Witness ==
    /\ failures >= 2
    /\ call.op \in Operations
    /\ ~native_client.some

\* C4: connect() on a session whose address list is empty or holds an
\* address that is not host:port fails before the native init is called;
\* a well-formed list is not rejected before the native init.
C4_InvalidAddressBeforeInit ==
    call.op = "connect" =>
        IF WellFormedAddressList(addresses)
        THEN Logged(call.trace, LogNativeInit)
        ELSE ~call.result.ok /\ ~Logged(call.trace, LogNativeInit)

\* C5: an operation whose batch fails marshaling returns the validation
\* error without invoking the native call and leaves the cluster id, the
\* addresses and the handle unchanged.
C5_ValidationErrorIsLocal ==
    [][(call'.op \in Operations /\ ~Marshals(call')) =>
          /\ IsValidationError(call'.result)
          /\ ~NativeInvoked(call'.trace)
          /\ cluster_id' = cluster_id
          /\ addresses' = addresses
          /\ native_client' = native_client]_vars

C5_Witness ==
    /\ failures >= 1
    /\ call.op = "create_accounts"
    /\ Len(call.input) >= 2
    /\ js_object_to_account(call.input[1]).ok
    /\ ~js_object_to_account(call.input[2]).ok
    /\ IsValidationError(call.result)

C8_MissingIdIsRejected ==
    (/\ call.op \in {"create_accounts", "create_transfers"}
     /\ Len(call.input) >= 1
     /\ call.input[1].id = Undefined)
        => (~call.result.ok /\ call.result.err = <<"MissingRequiredField", "id">>)

\* C6: parsing a create-operation result payload yields one result per
\* (index, outcome) pair of the payload, none for an empty payload.
C6_OneResultPerPayloadEntry ==
    fn_out.fn \in {"parse_create_accounts_results", "parse_create_transfers_results"}
        => /\ Len(fn_out.out) = Len(fn_in.pairs)
           /\ \A i \in 1..Len(fn_out.out) :
                 /\ fn_out.out[i].index = fn_in.pairs[i].index
                 /\ fn_out.out[i].result = fn_in.pairs[i].result

C10_DecodeEncodeLength ==
    fn_out.fn = "parse_lookup_accounts_results"
        => Len(fn_out.out) = Len(fn_in.accounts)

====
